---- MODULE Spec2Model ----
(***************************************************************************)
(* YouTube Caption Extractor API (src/main.py): the identifier normalizer  *)
(* VideoRequest.validate_video_id, the two caption endpoints and the       *)
(* fetch / transform / classify pipeline of get_captions.                  *)
(*                                                                         *)
(* A Python str is modelled as the sequence of its Unicode code points, so *)
(* that substring tests, regular-expression matches, lower-casing and      *)
(* whitespace clean-up are computed character by character. A comment      *)
(* next to each literal gives its text.                                    *)
(***************************************************************************)
EXTENDS Integers, Sequences, FiniteSets, TLC

VARIABLES pc, endpoint, raw, video_id, upstream, response

vars == <<pc, endpoint, raw, video_id, upstream, response>>

---------------------------------------------------------------------------
(* Characters *)

(* the character class [a-zA-Z0-9_-]: A-Z, a-z, 0-9, "_" and "-" *)
IdAlphabet == (65..90) \cup (97..122) \cup (48..57) \cup {95, 45}

(* the class \s of a str pattern, which is also what str.strip() strips:   *)
(* the characters c with c.isspace(): \t \n \x0b \x0c \r, \x1c-\x1f,       *)
(* space, \x85, \xa0, U+1680, U+2000-U+200A, U+2028, U+2029, U+202F,       *)
(* U+205F and U+3000                                                       *)
Whitespace ==
    (9..13) \cup (28..32) \cup {133, 160, 5760} \cup (8192..8202)
        \cup {8232, 8233, 8239, 8287, 12288}

(* the length the validation pattern demands: {11} *)
IdLen == 11

(* "\n", the one character $ lets follow the match *)
LineBreak == 10

(* " ", the separator of the join and the replacement of a whitespace run *)
Space == 32

(* "/", which a path parameter of the route cannot hold *)
Slash == 47

---------------------------------------------------------------------------
(* String primitives *)

(* sub in s *)
str_contains(sub, s) ==
    \E i \in 1..(Len(s) - Len(sub) + 1) : SubSeq(s, i, i + Len(sub) - 1) = sub

(* The case tables of str.lower() (CPython 3.11, Unicode 14.0).            *)
(* LowerRuns: <<first, last, step, delta>>: every step-th character from   *)
(* first to last lowers to itself plus delta. Not in it: U+0130, which     *)
(* lowers to two characters, and U+03A3, which depends on its neighbours.  *)
LowerRuns ==
    {
     <<65, 90, 1, 32>>, <<192, 214, 1, 32>>, <<216, 222, 1, 32>>,
     <<256, 302, 2, 1>>, <<306, 310, 2, 1>>, <<313, 327, 2, 1>>,
     <<330, 374, 2, 1>>, <<376, 376, 1, -121>>, <<377, 381, 2, 1>>,
     <<385, 385, 1, 210>>, <<386, 388, 2, 1>>, <<390, 390, 1, 206>>,
     <<391, 391, 1, 1>>, <<393, 394, 1, 205>>, <<395, 395, 1, 1>>,
     <<398, 398, 1, 79>>, <<399, 399, 1, 202>>, <<400, 400, 1, 203>>,
     <<401, 401, 1, 1>>, <<403, 403, 1, 205>>, <<404, 404, 1, 207>>,
     <<406, 406, 1, 211>>, <<407, 407, 1, 209>>, <<408, 408, 1, 1>>,
     <<412, 412, 1, 211>>, <<413, 413, 1, 213>>, <<415, 415, 1, 214>>,
     <<416, 420, 2, 1>>, <<422, 422, 1, 218>>, <<423, 423, 1, 1>>,
     <<425, 425, 1, 218>>, <<428, 428, 1, 1>>, <<430, 430, 1, 218>>,
     <<431, 431, 1, 1>>, <<433, 434, 1, 217>>, <<435, 437, 2, 1>>,
     <<439, 439, 1, 219>>, <<440, 440, 1, 1>>, <<444, 444, 1, 1>>,
     <<452, 452, 1, 2>>, <<453, 453, 1, 1>>, <<455, 455, 1, 2>>,
     <<456, 456, 1, 1>>, <<458, 458, 1, 2>>, <<459, 475, 2, 1>>,
     <<478, 494, 2, 1>>, <<497, 497, 1, 2>>, <<498, 500, 2, 1>>,
     <<502, 502, 1, -97>>, <<503, 503, 1, -56>>, <<504, 542, 2, 1>>,
     <<544, 544, 1, -130>>, <<546, 562, 2, 1>>, <<570, 570, 1, 10795>>,
     <<571, 571, 1, 1>>, <<573, 573, 1, -163>>, <<574, 574, 1, 10792>>,
     <<577, 577, 1, 1>>, <<579, 579, 1, -195>>, <<580, 580, 1, 69>>,
     <<581, 581, 1, 71>>, <<582, 590, 2, 1>>, <<880, 882, 2, 1>>,
     <<886, 886, 1, 1>>, <<895, 895, 1, 116>>, <<902, 902, 1, 38>>,
     <<904, 906, 1, 37>>, <<908, 908, 1, 64>>, <<910, 911, 1, 63>>,
     <<913, 929, 1, 32>>, <<932, 939, 1, 32>>, <<975, 975, 1, 8>>,
     <<984, 1006, 2, 1>>, <<1012, 1012, 1, -60>>, <<1015, 1015, 1, 1>>,
     <<1017, 1017, 1, -7>>, <<1018, 1018, 1, 1>>, <<1021, 1023, 1, -130>>,
     <<1024, 1039, 1, 80>>, <<1040, 1071, 1, 32>>, <<1120, 1152, 2, 1>>,
     <<1162, 1214, 2, 1>>, <<1216, 1216, 1, 15>>, <<1217, 1229, 2, 1>>,
     <<1232, 1326, 2, 1>>, <<1329, 1366, 1, 48>>, <<4256, 4293, 1, 7264>>,
     <<4295, 4295, 1, 7264>>, <<4301, 4301, 1, 7264>>,
     <<5024, 5103, 1, 38864>>, <<5104, 5109, 1, 8>>,
     <<7312, 7354, 1, -3008>>, <<7357, 7359, 1, -3008>>,
     <<7680, 7828, 2, 1>>, <<7838, 7838, 1, -7615>>, <<7840, 7934, 2, 1>>,
     <<7944, 7951, 1, -8>>, <<7960, 7965, 1, -8>>, <<7976, 7983, 1, -8>>,
     <<7992, 7999, 1, -8>>, <<8008, 8013, 1, -8>>, <<8025, 8031, 2, -8>>,
     <<8040, 8047, 1, -8>>, <<8072, 8079, 1, -8>>, <<8088, 8095, 1, -8>>,
     <<8104, 8111, 1, -8>>, <<8120, 8121, 1, -8>>, <<8122, 8123, 1, -74>>,
     <<8124, 8124, 1, -9>>, <<8136, 8139, 1, -86>>, <<8140, 8140, 1, -9>>,
     <<8152, 8153, 1, -8>>, <<8154, 8155, 1, -100>>, <<8168, 8169, 1, -8>>,
     <<8170, 8171, 1, -112>>, <<8172, 8172, 1, -7>>,
     <<8184, 8185, 1, -128>>, <<8186, 8187, 1, -126>>,
     <<8188, 8188, 1, -9>>, <<8486, 8486, 1, -7517>>,
     <<8490, 8490, 1, -8383>>, <<8491, 8491, 1, -8262>>,
     <<8498, 8498, 1, 28>>, <<8544, 8559, 1, 16>>, <<8579, 8579, 1, 1>>,
     <<9398, 9423, 1, 26>>, <<11264, 11311, 1, 48>>,
     <<11360, 11360, 1, 1>>, <<11362, 11362, 1, -10743>>,
     <<11363, 11363, 1, -3814>>, <<11364, 11364, 1, -10727>>,
     <<11367, 11371, 2, 1>>, <<11373, 11373, 1, -10780>>,
     <<11374, 11374, 1, -10749>>, <<11375, 11375, 1, -10783>>,
     <<11376, 11376, 1, -10782>>, <<11378, 11378, 1, 1>>,
     <<11381, 11381, 1, 1>>, <<11390, 11391, 1, -10815>>,
     <<11392, 11490, 2, 1>>, <<11499, 11501, 2, 1>>,
     <<11506, 11506, 1, 1>>, <<42560, 42604, 2, 1>>,
     <<42624, 42650, 2, 1>>, <<42786, 42798, 2, 1>>,
     <<42802, 42862, 2, 1>>, <<42873, 42875, 2, 1>>,
     <<42877, 42877, 1, -35332>>, <<42878, 42886, 2, 1>>,
     <<42891, 42891, 1, 1>>, <<42893, 42893, 1, -42280>>,
     <<42896, 42898, 2, 1>>, <<42902, 42920, 2, 1>>,
     <<42922, 42922, 1, -42308>>, <<42923, 42923, 1, -42319>>,
     <<42924, 42924, 1, -42315>>, <<42925, 42925, 1, -42305>>,
     <<42926, 42926, 1, -42308>>, <<42928, 42928, 1, -42258>>,
     <<42929, 42929, 1, -42282>>, <<42930, 42930, 1, -42261>>,
     <<42931, 42931, 1, 928>>, <<42932, 42946, 2, 1>>,
     <<42948, 42948, 1, -48>>, <<42949, 42949, 1, -42307>>,
     <<42950, 42950, 1, -35384>>, <<42951, 42953, 2, 1>>,
     <<42960, 42960, 1, 1>>, <<42966, 42968, 2, 1>>,
     <<42997, 42997, 1, 1>>, <<65313, 65338, 1, 32>>,
     <<66560, 66599, 1, 40>>, <<66736, 66771, 1, 40>>,
     <<66928, 66938, 1, 39>>, <<66940, 66954, 1, 39>>,
     <<66956, 66962, 1, 39>>, <<66964, 66965, 1, 39>>,
     <<68736, 68786, 1, 64>>, <<71840, 71871, 1, 32>>,
     <<93760, 93791, 1, 32>>, <<125184, 125217, 1, 34>>
    }

(* <<first, last>> ranges of the characters the final-sigma rule skips     *)
(* (the case-ignorable ones)                                               *)
CaseIgnorableRanges ==
    {
     <<39, 39>>, <<46, 46>>, <<58, 58>>, <<94, 94>>, <<96, 96>>,
     <<168, 168>>, <<173, 173>>, <<175, 175>>, <<180, 180>>, <<183, 184>>,
     <<688, 879>>, <<884, 885>>, <<890, 890>>, <<900, 901>>, <<903, 903>>,
     <<1155, 1161>>, <<1369, 1369>>, <<1375, 1375>>, <<1425, 1469>>,
     <<1471, 1471>>, <<1473, 1474>>, <<1476, 1477>>, <<1479, 1479>>,
     <<1524, 1524>>, <<1536, 1541>>, <<1552, 1562>>, <<1564, 1564>>,
     <<1600, 1600>>, <<1611, 1631>>, <<1648, 1648>>, <<1750, 1757>>,
     <<1759, 1768>>, <<1770, 1773>>, <<1807, 1807>>, <<1809, 1809>>,
     <<1840, 1866>>, <<1958, 1968>>, <<2027, 2037>>, <<2042, 2042>>,
     <<2045, 2045>>, <<2070, 2093>>, <<2137, 2139>>, <<2184, 2184>>,
     <<2192, 2193>>, <<2200, 2207>>, <<2249, 2306>>, <<2362, 2362>>,
     <<2364, 2364>>, <<2369, 2376>>, <<2381, 2381>>, <<2385, 2391>>,
     <<2402, 2403>>, <<2417, 2417>>, <<2433, 2433>>, <<2492, 2492>>,
     <<2497, 2500>>, <<2509, 2509>>, <<2530, 2531>>, <<2558, 2558>>,
     <<2561, 2562>>, <<2620, 2620>>, <<2625, 2626>>, <<2631, 2632>>,
     <<2635, 2637>>, <<2641, 2641>>, <<2672, 2673>>, <<2677, 2677>>,
     <<2689, 2690>>, <<2748, 2748>>, <<2753, 2757>>, <<2759, 2760>>,
     <<2765, 2765>>, <<2786, 2787>>, <<2810, 2815>>, <<2817, 2817>>,
     <<2876, 2876>>, <<2879, 2879>>, <<2881, 2884>>, <<2893, 2893>>,
     <<2901, 2902>>, <<2914, 2915>>, <<2946, 2946>>, <<3008, 3008>>,
     <<3021, 3021>>, <<3072, 3072>>, <<3076, 3076>>, <<3132, 3132>>,
     <<3134, 3136>>, <<3142, 3144>>, <<3146, 3149>>, <<3157, 3158>>,
     <<3170, 3171>>, <<3201, 3201>>, <<3260, 3260>>, <<3263, 3263>>,
     <<3270, 3270>>, <<3276, 3277>>, <<3298, 3299>>, <<3328, 3329>>,
     <<3387, 3388>>, <<3393, 3396>>, <<3405, 3405>>, <<3426, 3427>>,
     <<3457, 3457>>, <<3530, 3530>>, <<3538, 3540>>, <<3542, 3542>>,
     <<3633, 3633>>, <<3636, 3642>>, <<3654, 3662>>, <<3761, 3761>>,
     <<3764, 3772>>, <<3782, 3782>>, <<3784, 3789>>, <<3864, 3865>>,
     <<3893, 3893>>, <<3895, 3895>>, <<3897, 3897>>, <<3953, 3966>>,
     <<3968, 3972>>, <<3974, 3975>>, <<3981, 3991>>, <<3993, 4028>>,
     <<4038, 4038>>, <<4141, 4144>>, <<4146, 4151>>, <<4153, 4154>>,
     <<4157, 4158>>, <<4184, 4185>>, <<4190, 4192>>, <<4209, 4212>>,
     <<4226, 4226>>, <<4229, 4230>>, <<4237, 4237>>, <<4253, 4253>>,
     <<4348, 4348>>, <<4957, 4959>>, <<5906, 5908>>, <<5938, 5939>>,
     <<5970, 5971>>, <<6002, 6003>>, <<6068, 6069>>, <<6071, 6077>>,
     <<6086, 6086>>, <<6089, 6099>>, <<6103, 6103>>, <<6109, 6109>>,
     <<6155, 6159>>, <<6211, 6211>>, <<6277, 6278>>, <<6313, 6313>>,
     <<6432, 6434>>, <<6439, 6440>>, <<6450, 6450>>, <<6457, 6459>>,
     <<6679, 6680>>, <<6683, 6683>>, <<6742, 6742>>, <<6744, 6750>>,
     <<6752, 6752>>, <<6754, 6754>>, <<6757, 6764>>, <<6771, 6780>>,
     <<6783, 6783>>, <<6823, 6823>>, <<6832, 6862>>, <<6912, 6915>>,
     <<6964, 6964>>, <<6966, 6970>>, <<6972, 6972>>, <<6978, 6978>>,
     <<7019, 7027>>, <<7040, 7041>>, <<7074, 7077>>, <<7080, 7081>>,
     <<7083, 7085>>, <<7142, 7142>>, <<7144, 7145>>, <<7149, 7149>>,
     <<7151, 7153>>, <<7212, 7219>>, <<7222, 7223>>, <<7288, 7293>>,
     <<7376, 7378>>, <<7380, 7392>>, <<7394, 7400>>, <<7405, 7405>>,
     <<7412, 7412>>, <<7416, 7417>>, <<7468, 7530>>, <<7544, 7544>>,
     <<7579, 7679>>, <<8125, 8125>>, <<8127, 8129>>, <<8141, 8143>>,
     <<8157, 8159>>, <<8173, 8175>>, <<8189, 8190>>, <<8203, 8207>>,
     <<8216, 8217>>, <<8228, 8228>>, <<8231, 8231>>, <<8234, 8238>>,
     <<8288, 8292>>, <<8294, 8303>>, <<8305, 8305>>, <<8319, 8319>>,
     <<8336, 8348>>, <<8400, 8432>>, <<11388, 11389>>, <<11503, 11505>>,
     <<11631, 11631>>, <<11647, 11647>>, <<11744, 11775>>,
     <<11823, 11823>>, <<12293, 12293>>, <<12330, 12333>>,
     <<12337, 12341>>, <<12347, 12347>>, <<12441, 12446>>,
     <<12540, 12542>>, <<40981, 40981>>, <<42232, 42237>>,
     <<42508, 42508>>, <<42607, 42610>>, <<42612, 42621>>,
     <<42623, 42623>>, <<42652, 42655>>, <<42736, 42737>>,
     <<42752, 42785>>, <<42864, 42864>>, <<42888, 42890>>,
     <<42994, 42996>>, <<43000, 43001>>, <<43010, 43010>>,
     <<43014, 43014>>, <<43019, 43019>>, <<43045, 43046>>,
     <<43052, 43052>>, <<43204, 43205>>, <<43232, 43249>>,
     <<43263, 43263>>, <<43302, 43309>>, <<43335, 43345>>,
     <<43392, 43394>>, <<43443, 43443>>, <<43446, 43449>>,
     <<43452, 43453>>, <<43471, 43471>>, <<43493, 43494>>,
     <<43561, 43566>>, <<43569, 43570>>, <<43573, 43574>>,
     <<43587, 43587>>, <<43596, 43596>>, <<43632, 43632>>,
     <<43644, 43644>>, <<43696, 43696>>, <<43698, 43700>>,
     <<43703, 43704>>, <<43710, 43711>>, <<43713, 43713>>,
     <<43741, 43741>>, <<43756, 43757>>, <<43763, 43764>>,
     <<43766, 43766>>, <<43867, 43871>>, <<43881, 43883>>,
     <<44005, 44005>>, <<44008, 44008>>, <<44013, 44013>>,
     <<64286, 64286>>, <<64434, 64450>>, <<65024, 65039>>,
     <<65043, 65043>>, <<65056, 65071>>, <<65106, 65106>>,
     <<65109, 65109>>, <<65279, 65279>>, <<65287, 65287>>,
     <<65294, 65294>>, <<65306, 65306>>, <<65342, 65342>>,
     <<65344, 65344>>, <<65392, 65392>>, <<65438, 65439>>,
     <<65507, 65507>>, <<65529, 65531>>, <<66045, 66045>>,
     <<66272, 66272>>, <<66422, 66426>>, <<67456, 67461>>,
     <<67463, 67504>>, <<67506, 67514>>, <<68097, 68099>>,
     <<68101, 68102>>, <<68108, 68111>>, <<68152, 68154>>,
     <<68159, 68159>>, <<68325, 68326>>, <<68900, 68903>>,
     <<69291, 69292>>, <<69446, 69456>>, <<69506, 69509>>,
     <<69633, 69633>>, <<69688, 69702>>, <<69744, 69744>>,
     <<69747, 69748>>, <<69759, 69761>>, <<69811, 69814>>,
     <<69817, 69818>>, <<69821, 69821>>, <<69826, 69826>>,
     <<69837, 69837>>, <<69888, 69890>>, <<69927, 69931>>,
     <<69933, 69940>>, <<70003, 70003>>, <<70016, 70017>>,
     <<70070, 70078>>, <<70089, 70092>>, <<70095, 70095>>,
     <<70191, 70193>>, <<70196, 70196>>, <<70198, 70199>>,
     <<70206, 70206>>, <<70367, 70367>>, <<70371, 70378>>,
     <<70400, 70401>>, <<70459, 70460>>, <<70464, 70464>>,
     <<70502, 70508>>, <<70512, 70516>>, <<70712, 70719>>,
     <<70722, 70724>>, <<70726, 70726>>, <<70750, 70750>>,
     <<70835, 70840>>, <<70842, 70842>>, <<70847, 70848>>,
     <<70850, 70851>>, <<71090, 71093>>, <<71100, 71101>>,
     <<71103, 71104>>, <<71132, 71133>>, <<71219, 71226>>,
     <<71229, 71229>>, <<71231, 71232>>, <<71339, 71339>>,
     <<71341, 71341>>, <<71344, 71349>>, <<71351, 71351>>,
     <<71453, 71455>>, <<71458, 71461>>, <<71463, 71467>>,
     <<71727, 71735>>, <<71737, 71738>>, <<71995, 71996>>,
     <<71998, 71998>>, <<72003, 72003>>, <<72148, 72151>>,
     <<72154, 72155>>, <<72160, 72160>>, <<72193, 72202>>,
     <<72243, 72248>>, <<72251, 72254>>, <<72263, 72263>>,
     <<72273, 72278>>, <<72281, 72283>>, <<72330, 72342>>,
     <<72344, 72345>>, <<72752, 72758>>, <<72760, 72765>>,
     <<72767, 72767>>, <<72850, 72871>>, <<72874, 72880>>,
     <<72882, 72883>>, <<72885, 72886>>, <<73009, 73014>>,
     <<73018, 73018>>, <<73020, 73021>>, <<73023, 73029>>,
     <<73031, 73031>>, <<73104, 73105>>, <<73109, 73109>>,
     <<73111, 73111>>, <<73459, 73460>>, <<78896, 78904>>,
     <<92912, 92916>>, <<92976, 92982>>, <<92992, 92995>>,
     <<94031, 94031>>, <<94095, 94111>>, <<94176, 94177>>,
     <<94179, 94180>>, <<110576, 110579>>, <<110581, 110587>>,
     <<110589, 110590>>, <<113821, 113822>>, <<113824, 113827>>,
     <<118528, 118573>>, <<118576, 118598>>, <<119143, 119145>>,
     <<119155, 119170>>, <<119173, 119179>>, <<119210, 119213>>,
     <<119362, 119364>>, <<121344, 121398>>, <<121403, 121452>>,
     <<121461, 121461>>, <<121476, 121476>>, <<121499, 121503>>,
     <<121505, 121519>>, <<122880, 122886>>, <<122888, 122904>>,
     <<122907, 122913>>, <<122915, 122916>>, <<122918, 122922>>,
     <<123184, 123197>>, <<123566, 123566>>, <<123628, 123631>>,
     <<125136, 125142>>, <<125252, 125259>>, <<127995, 127999>>,
     <<917505, 917505>>, <<917536, 917631>>, <<917760, 917999>>
    }

(* <<first, last>> ranges of the cased characters that are not skipped *)
CasedRanges ==
    {
     <<65, 90>>, <<97, 122>>, <<170, 170>>, <<181, 181>>, <<186, 186>>,
     <<192, 214>>, <<216, 246>>, <<248, 442>>, <<444, 447>>, <<452, 659>>,
     <<661, 687>>, <<880, 883>>, <<886, 887>>, <<891, 893>>, <<895, 895>>,
     <<902, 902>>, <<904, 906>>, <<908, 908>>, <<910, 929>>, <<931, 1013>>,
     <<1015, 1153>>, <<1162, 1327>>, <<1329, 1366>>, <<1376, 1416>>,
     <<4256, 4293>>, <<4295, 4295>>, <<4301, 4301>>, <<4304, 4346>>,
     <<4349, 4351>>, <<5024, 5109>>, <<5112, 5117>>, <<7296, 7304>>,
     <<7312, 7354>>, <<7357, 7359>>, <<7424, 7467>>, <<7531, 7543>>,
     <<7545, 7578>>, <<7680, 7957>>, <<7960, 7965>>, <<7968, 8005>>,
     <<8008, 8013>>, <<8016, 8023>>, <<8025, 8025>>, <<8027, 8027>>,
     <<8029, 8029>>, <<8031, 8061>>, <<8064, 8116>>, <<8118, 8124>>,
     <<8126, 8126>>, <<8130, 8132>>, <<8134, 8140>>, <<8144, 8147>>,
     <<8150, 8155>>, <<8160, 8172>>, <<8178, 8180>>, <<8182, 8188>>,
     <<8450, 8450>>, <<8455, 8455>>, <<8458, 8467>>, <<8469, 8469>>,
     <<8473, 8477>>, <<8484, 8484>>, <<8486, 8486>>, <<8488, 8488>>,
     <<8490, 8493>>, <<8495, 8500>>, <<8505, 8505>>, <<8508, 8511>>,
     <<8517, 8521>>, <<8526, 8526>>, <<8544, 8575>>, <<8579, 8580>>,
     <<9398, 9449>>, <<11264, 11387>>, <<11390, 11492>>, <<11499, 11502>>,
     <<11506, 11507>>, <<11520, 11557>>, <<11559, 11559>>,
     <<11565, 11565>>, <<42560, 42605>>, <<42624, 42651>>,
     <<42786, 42863>>, <<42865, 42887>>, <<42891, 42894>>,
     <<42896, 42954>>, <<42960, 42961>>, <<42963, 42963>>,
     <<42965, 42969>>, <<42997, 42998>>, <<43002, 43002>>,
     <<43824, 43866>>, <<43872, 43880>>, <<43888, 43967>>,
     <<64256, 64262>>, <<64275, 64279>>, <<65313, 65338>>,
     <<65345, 65370>>, <<66560, 66639>>, <<66736, 66771>>,
     <<66776, 66811>>, <<66928, 66938>>, <<66940, 66954>>,
     <<66956, 66962>>, <<66964, 66965>>, <<66967, 66977>>,
     <<66979, 66993>>, <<66995, 67001>>, <<67003, 67004>>,
     <<68736, 68786>>, <<68800, 68850>>, <<71840, 71903>>,
     <<93760, 93823>>, <<119808, 119892>>, <<119894, 119964>>,
     <<119966, 119967>>, <<119970, 119970>>, <<119973, 119974>>,
     <<119977, 119980>>, <<119982, 119993>>, <<119995, 119995>>,
     <<119997, 120003>>, <<120005, 120069>>, <<120071, 120074>>,
     <<120077, 120084>>, <<120086, 120092>>, <<120094, 120121>>,
     <<120123, 120126>>, <<120128, 120132>>, <<120134, 120134>>,
     <<120138, 120144>>, <<120146, 120485>>, <<120488, 120512>>,
     <<120514, 120538>>, <<120540, 120570>>, <<120572, 120596>>,
     <<120598, 120628>>, <<120630, 120654>>, <<120656, 120686>>,
     <<120688, 120712>>, <<120714, 120744>>, <<120746, 120770>>,
     <<120772, 120779>>, <<122624, 122633>>, <<122635, 122654>>,
     <<125184, 125251>>, <<127280, 127305>>, <<127312, 127337>>,
     <<127344, 127369>>
    }

InRanges(c, ranges) == \E r \in ranges : r[1] <= c /\ c <= r[2]

(* the lower case of one character other than U+03A3, as a str; an ASCII  *)
(* character is decided without the table: A-Z lower, the others stay     *)
lower_char(c) ==
    IF c < 128 THEN (IF 65 <= c /\ c <= 90 THEN <<c + 32>> ELSE <<c>>)
    ELSE IF c = 304 THEN <<105, 775>>
    ELSE IF \E r \in LowerRuns :
                r[1] <= c /\ c <= r[2] /\ (c - r[1]) % r[3] = 0
    THEN LET r == CHOOSE r \in LowerRuns :
                      r[1] <= c /\ c <= r[2] /\ (c - r[1]) % r[3] = 0
         IN  <<c + r[4]>>
    ELSE <<c>>

(* whether the capital sigma at s[i] is final: the nearest character       *)
(* before it that is not skipped is cased, and the nearest one after it    *)
(* that is not skipped, if any, is not cased                               *)
is_final_sigma(s, i) ==
    LET before == {j \in 1..(i - 1) : ~InRanges(s[j], CaseIgnorableRanges)}
        after == {j \in (i + 1)..Len(s) : ~InRanges(s[j], CaseIgnorableRanges)}
    IN  /\ before # {}
        /\ InRanges(s[CHOOSE j \in before : \A k \in before : k <= j],
                    CasedRanges)
        /\ \/ after = {}
           \/ ~InRanges(s[CHOOSE j \in after : \A k \in after : j <= k],
                        CasedRanges)

RECURSIVE Flatten(_)
(* the concatenation of a sequence of strings, half by half *)
Flatten(seqs) ==
    IF seqs = <<>> THEN <<>>
    ELSE IF Len(seqs) = 1 THEN seqs[1]
    ELSE Flatten(SubSeq(seqs, 1, Len(seqs) \div 2))
             \o Flatten(SubSeq(seqs, Len(seqs) \div 2 + 1, Len(seqs)))

(* s.lower() *)
str_lower(s) ==
    Flatten([i \in 1..Len(s) |->
                IF s[i] = 931
                THEN IF is_final_sigma(s, i) THEN <<962>> ELSE <<963>>
                ELSE lower_char(s[i])])

SetMin(S) == CHOOSE x \in S : \A y \in S : x <= y

SetMax(S) == CHOOSE x \in S : \A y \in S : x >= y

(* re.search(lit + '([a-zA-Z0-9_-]+)', s): the leftmost place where lit is  *)
(* followed by at least one character of the class; group(1) is the whole   *)
(* run of class characters that follows (the + is greedy).                  *)
re_search_capture(lit, s) ==
    LET starts == {i \in 1..Len(s) :
                      /\ i + Len(lit) <= Len(s)
                      /\ SubSeq(s, i, i + Len(lit) - 1) = lit
                      /\ s[i + Len(lit)] \in IdAlphabet}
    IN  IF starts = {}
        THEN [matched |-> FALSE, group |-> <<>>]
        ELSE LET b == SetMin(starts) + Len(lit)
                 e == SetMax({j \in b..Len(s) :
                                 \A k \in b..j : s[k] \in IdAlphabet})
             IN  [matched |-> TRUE, group |-> SubSeq(s, b, e)]

(* re.match(r'^[a-zA-Z0-9_-]{11}$', v): eleven class characters from the    *)
(* start, then $, which in Python matches at the end of the string and      *)
(* also just before a line break that is the last character.                *)
re_match_id(v) ==
    /\ Len(v) >= IdLen
    /\ \A i \in 1..IdLen : v[i] \in IdAlphabet
    /\ \/ Len(v) = IdLen
       \/ Len(v) = IdLen + 1 /\ v[IdLen + 1] = LineBreak

---------------------------------------------------------------------------
(* Literals of the identifier normalizer *)

(* "youtube.com/watch?v=" *)
WatchMarker ==
    <<121,111,117,116,117,98,101,46,99,111,109,47,119,97,116,99,104,63,118,
      61>>

(* "v=" *)
WatchPattern ==
    <<118,61>>

(* "youtu.be/" *)
ShortMarker ==
    <<121,111,117,116,117,46,98,101,47>>

(* "Invalid YouTube video ID format" *)
MsgInvalidId ==
    <<73,110,118,97,108,105,100,32,89,111,117,84,117,98,101,32,118,105,100,
      101,111,32,73,68,32,102,111,114,109,97,116>>

---------------------------------------------------------------------------
(* VideoRequest.validate_video_id *)

(* the value after the URL clean-up, before the format check *)
extract_video_id(v) ==
    IF str_contains(WatchMarker, v)
    THEN LET m == re_search_capture(WatchPattern, v)
         IN  IF m.matched THEN m.group ELSE v
    ELSE IF str_contains(ShortMarker, v)
    THEN LET m == re_search_capture(ShortMarker, v)
         IN  IF m.matched THEN m.group ELSE v
    ELSE v

(* validate_video_id without the URL clean-up: the format check alone *)
validate_video_id_no_cleanup(v) ==
    IF re_match_id(v)
    THEN [ok |-> TRUE, value |-> v, error |-> <<>>]
    ELSE [ok |-> FALSE, value |-> <<>>, error |-> MsgInvalidId]

validate_video_id(v) ==
    LET w == extract_video_id(v)
    IN  IF re_match_id(w)
        THEN [ok |-> TRUE, value |-> w, error |-> <<>>]
        ELSE [ok |-> FALSE, value |-> <<>>, error |-> MsgInvalidId]

---------------------------------------------------------------------------
(* Literals of get_captions and of the framework's own error responses *)

(* "No captions/transcripts available for this video" *)
MsgNoTranscript ==
    <<78,111,32,99,97,112,116,105,111,110,115,47,116,114,97,110,115,99,114,
      105,112,116,115,32,97,118,97,105,108,97,98,108,101,32,102,111,114,32,
      116,104,105,115,32,118,105,100,101,111>>

(* "Video not found or is unavailable" *)
MsgNotFound ==
    <<86,105,100,101,111,32,110,111,116,32,102,111,117,110,100,32,111,114,
      32,105,115,32,117,110,97,118,97,105,108,97,98,108,101>>

(* "Video is private and captions cannot be accessed" *)
MsgPrivate ==
    <<86,105,100,101,111,32,105,115,32,112,114,105,118,97,116,101,32,97,110,
      100,32,99,97,112,116,105,111,110,115,32,99,97,110,110,111,116,32,98,
      101,32,97,99,99,101,115,115,101,100>>

(* "Captions are disabled for this video" *)
MsgDisabled ==
    <<67,97,112,116,105,111,110,115,32,97,114,101,32,100,105,115,97,98,108,
      101,100,32,102,111,114,32,116,104,105,115,32,118,105,100,101,111>>

(* "Error processing video: " *)
MsgProcessingPrefix ==
    <<69,114,114,111,114,32,112,114,111,99,101,115,115,105,110,103,32,118,
      105,100,101,111,58,32>>

(* "Value error, " *)
MsgValueErrorPrefix ==
    <<86,97,108,117,101,32,101,114,114,111,114,44,32>>

(* "Internal Server Error" *)
MsgInternalServerError ==
    <<73,110,116,101,114,110,97,108,32,83,101,114,118,101,114,32,69,114,114,
      111,114>>

(* "video unavailable" *)
NeedleUnavailable ==
    <<118,105,100,101,111,32,117,110,97,118,97,105,108,97,98,108,101>>

(* "video does not exist" *)
NeedleNotExist ==
    <<118,105,100,101,111,32,100,111,101,115,32,110,111,116,32,101,120,105,
      115,116>>

(* "private" *)
NeedlePrivate ==
    <<112,114,105,118,97,116,101>>

(* "disabled" *)
NeedleDisabled ==
    <<100,105,115,97,98,108,101,100>>

(* str(e) of the pydantic ValidationError that CaptionResponse(language=None) *)
(* raises (pydantic 2.13): "1 validation error for CaptionResponse", then    *)
(* "language", then "  Input should be a valid string [type=string_type,     *)
(* input_value=None, input_type=NoneType]", then "    For further            *)
(* information visit https://errors.pydantic.dev/2.13/v/string_type"         *)
ExcLanguageNone ==
    <<49,32,118,97,108,105,100,97,116,105,111,110,32,101,114,114,111,114,32,
      102,111,114,32,67,97,112,116,105,111,110,82,101,115,112,111,110,115,
      101,10,108,97,110,103,117,97,103,101,10,32,32,73,110,112,117,116,32,
      115,104,111,117,108,100,32,98,101,32,97,32,118,97,108,105,100,32,115,
      116,114,105,110,103,32,91,116,121,112,101,61,115,116,114,105,110,103,
      95,116,121,112,101,44,32,105,110,112,117,116,95,118,97,108,117,101,61,
      78,111,110,101,44,32,105,110,112,117,116,95,116,121,112,101,61,78,111,
      110,101,84,121,112,101,93,10,32,32,32,32,70,111,114,32,102,117,114,
      116,104,101,114,32,105,110,102,111,114,109,97,116,105,111,110,32,118,
      105,115,105,116,32,104,116,116,112,115,58,47,47,101,114,114,111,114,
      115,46,112,121,100,97,110,116,105,99,46,100,101,118,47,50,46,49,51,47,
      118,47,115,116,114,105,110,103,95,116,121,112,101>>

(* Python's None, as the collaborator's language_code *)
PyNone == "<None>"

---------------------------------------------------------------------------
(* Responses: one record shape for every body the service can send.        *)
(* kind tells which fields the body really has; the others are blank.      *)

NoResponse ==
    [video_id |-> <<>>, error |-> <<>>, kind |-> "none", status |-> 0,
     error_code |-> "", captions |-> <<>>, language |-> "",
     total_duration |-> 0]

(* CaptionResponse(video_id, captions, language, total_duration), sent 200 *)
CaptionResponse(vid, captions_text, language, total_duration) ==
    [video_id |-> vid, error |-> <<>>, kind |-> "CaptionResponse",
     status |-> 200, error_code |-> "", captions |-> captions_text,
     language |-> language, total_duration |-> total_duration]

(* HTTPException(status_code, detail={error, error_code, video_id}) *)
HTTPException(status_code, user_message, error_code, vid) ==
    [video_id |-> vid, error |-> user_message, kind |-> "HTTPException",
     status |-> status_code, error_code |-> error_code, captions |-> <<>>,
     language |-> "", total_duration |-> 0]

(* the framework's answer to a request body that fails VideoRequest's      *)
(* validation: 422 with {"detail": [{"msg": "Value error, ...", ...}]},    *)
(* which has no error_code and no video_id field                           *)
RequestValidationError(message) ==
    [video_id |-> <<>>, error |-> MsgValueErrorPrefix \o message,
     kind |-> "RequestValidationError", status |-> 422, error_code |-> "",
     captions |-> <<>>, language |-> "", total_duration |-> 0]

(* the framework's answer to an exception that leaves a handler uncaught:  *)
(* 500 with the plain text "Internal Server Error"                         *)
InternalServerError ==
    [video_id |-> <<>>, error |-> MsgInternalServerError,
     kind |-> "InternalServerError", status |-> 500, error_code |-> "",
     captions |-> <<>>, language |-> "", total_duration |-> 0]

---------------------------------------------------------------------------
(* The collaborator's outcome: api.fetch(video_id) returns a transcript    *)
(* (snippets and a language_code) or an exception is raised at some stage  *)
(* of the inner try block.                                                 *)

NoUpstream ==
    [kind |-> "none", message |-> <<>>, stage |-> "", snippets |-> <<>>,
     language_code |-> ""]

Returned(snippets, language_code) ==
    [kind |-> "returns", message |-> <<>>, stage |-> "",
     snippets |-> snippets, language_code |-> language_code]

Raised(stage, message) ==
    [kind |-> "raises", message |-> message, stage |-> stage,
     snippets |-> <<>>, language_code |-> ""]

(* a snippet with numeric start and duration *)
Snippet(text, start, duration) ==
    [message |-> <<>>, text |-> text, start |-> start,
     duration |-> duration, add_raises |-> FALSE]

(* a snippet whose start + duration raises Exception(message) *)
FaultySnippet(text, message) ==
    [message |-> message, text |-> text, start |-> 0, duration |-> 0,
     add_raises |-> TRUE]

---------------------------------------------------------------------------
(* get_captions: the transformation of a fetched transcript *)

RECURSIVE str_join(_, _)
(* sep.join(parts) *)
str_join(sep, parts) ==
    IF parts = <<>> THEN <<>>
    ELSE IF Len(parts) = 1 THEN parts[1]
    ELSE parts[1] \o sep \o str_join(sep, Tail(parts))

RECURSIVE skip_whitespace(_)
skip_whitespace(s) ==
    IF s # <<>> /\ Head(s) \in Whitespace THEN skip_whitespace(Tail(s)) ELSE s

RECURSIVE re_sub_whitespace(_)
(* re.sub(r'\s+', ' ', s) *)
re_sub_whitespace(s) ==
    IF s = <<>> THEN <<>>
    ELSE IF Head(s) \in Whitespace
    THEN <<Space>> \o re_sub_whitespace(skip_whitespace(s))
    ELSE <<Head(s)>> \o re_sub_whitespace(Tail(s))

(* lstrip in place of strip: trailing whitespace stays *)
str_lstrip_only(s) ==
    LET keep == {i \in 1..Len(s) : s[i] \notin Whitespace}
    IN  IF keep = {} THEN <<>> ELSE SubSeq(s, SetMin(keep), Len(s))

(* s.strip() *)
str_strip(s) ==
    LET keep == {i \in 1..Len(s) : s[i] \notin Whitespace}
    IN  IF keep = {} THEN <<>> ELSE SubSeq(s, SetMin(keep), SetMax(keep))

(* text_segments: every segment's text, in order *)
text_segments_of(transcript) ==
    [i \in 1..Len(transcript) |-> transcript[i].text]

(* captions_text: the join and the clean-up *)
captions_text_of(transcript) ==
    str_strip(re_sub_whitespace(str_join(<<Space>>, text_segments_of(transcript))))

RECURSIVE duration_loop(_, _)
(* the loop's running total_duration over the segments still to visit *)
duration_loop(transcript, total_duration) ==
    IF transcript = <<>> THEN total_duration
    ELSE LET segment_end == Head(transcript).start + Head(transcript).duration
         IN  duration_loop(Tail(transcript),
                           IF segment_end > total_duration
                           THEN segment_end ELSE total_duration)

(* the end of the last segment in sequence order, in place of the maximum *)
total_duration_of_last(transcript) ==
    IF transcript = <<>> THEN 0
    ELSE transcript[Len(transcript)].start + transcript[Len(transcript)].duration

(* total_duration when the loop over the transcript ends *)
total_duration_of(transcript) == duration_loop(transcript, 0)

(* the first segment whose start + duration raises, 0 when none does *)
first_fault(transcript) ==
    LET bad == {i \in 1..Len(transcript) : transcript[i].add_raises}
    IN  IF bad = {} THEN 0 ELSE SetMin(bad)

---------------------------------------------------------------------------
(* get_captions: the classification of a failure by its message *)

(* classify with the test for "private" moved in front of the others *)
classify_private_first(message) ==
    LET error_message == str_lower(message)
    IN  IF str_contains(NeedlePrivate, error_message)
        THEN [error_code |-> "VIDEO_PRIVATE", status_code |-> 403,
              user_message |-> MsgPrivate]
        ELSE IF \/ str_contains(NeedleUnavailable, error_message)
                \/ str_contains(NeedleNotExist, error_message)
        THEN [error_code |-> "VIDEO_NOT_FOUND", status_code |-> 404,
              user_message |-> MsgNotFound]
        ELSE IF str_contains(NeedleDisabled, error_message)
        THEN [error_code |-> "CAPTIONS_DISABLED", status_code |-> 400,
              user_message |-> MsgDisabled]
        ELSE [error_code |-> "PROCESSING_ERROR", status_code |-> 500,
              user_message |-> MsgProcessingPrefix \o message]

classify(message) ==
    LET error_message == str_lower(message)
    IN  IF \/ str_contains(NeedleUnavailable, error_message)
           \/ str_contains(NeedleNotExist, error_message)
        THEN [error_code |-> "VIDEO_NOT_FOUND", status_code |-> 404,
              user_message |-> MsgNotFound]
        ELSE IF str_contains(NeedlePrivate, error_message)
        THEN [error_code |-> "VIDEO_PRIVATE", status_code |-> 403,
              user_message |-> MsgPrivate]
        ELSE IF str_contains(NeedleDisabled, error_message)
        THEN [error_code |-> "CAPTIONS_DISABLED", status_code |-> 400,
              user_message |-> MsgDisabled]
        ELSE [error_code |-> "PROCESSING_ERROR", status_code |-> 500,
              user_message |-> MsgProcessingPrefix \o message]

(* the outer except Exception: the classified HTTPException *)
outer_except(vid, message) ==
    LET c == classify(message)
    IN  HTTPException(c.status_code, c.user_message, c.error_code, vid)

(* the fetch failure handed to the message classification, as if the       *)
(* inner try block were not there                                          *)
inner_except_classified(vid, message) == outer_except(vid, message)

(* the inner except Exception around the fetch, whose HTTPException the    *)
(* outer except HTTPException re-raises as it is                           *)
inner_except(vid, message) ==
    HTTPException(404, MsgNoTranscript, "NO_TRANSCRIPT_AVAILABLE", vid)

(* the handler body from the collaborator's outcome to the response *)
get_captions(vid, up) ==
    IF up.kind = "raises" THEN inner_except(vid, up.message)
    ELSE LET transcript == up.snippets
             fault == first_fault(transcript)
         IN  IF fault # 0
             THEN outer_except(vid, transcript[fault].message)
             ELSE IF up.language_code = PyNone
             THEN outer_except(vid, ExcLanguageNone)
             ELSE CaptionResponse(vid, captions_text_of(transcript),
                                  up.language_code,
                                  total_duration_of(transcript))

---------------------------------------------------------------------------
(* The two caption endpoints, from the request to the collaborator call *)

(* POST /get-captions: the framework builds VideoRequest from the body     *)
(* before the handler runs, and answers a failed validation itself         *)
post_get_captions(s) ==
    LET r == validate_video_id(s)
    IN  IF r.ok
        THEN [video_id |-> r.value, response |-> NoResponse, accepted |-> TRUE]
        ELSE [video_id |-> <<>>, response |-> RequestValidationError(r.error),
              accepted |-> FALSE]

(* GET /video/{video_id}/captions: the handler builds VideoRequest itself, *)
(* and nothing catches the ValidationError a failed validation raises      *)
get_captions_by_url(s) ==
    LET r == validate_video_id(s)
    IN  IF r.ok
        THEN [video_id |-> r.value, response |-> NoResponse, accepted |-> TRUE]
        ELSE [video_id |-> <<>>, response |-> InternalServerError,
              accepted |-> FALSE]

(* a path segment: the route's {video_id} matches no "/" and is not empty *)
IsPathSegment(s) == s # <<>> /\ \A i \in 1..Len(s) : s[i] # Slash

---------------------------------------------------------------------------
(* Inputs *)

(* longest run of characters appended to the stem of an identifier *)
MaxTail == 2

(* most segments in a transcript *)
MaxSegs == 2

(* longest text of one segment *)
MaxTextLen == 1

(* largest start offset and largest duration of a segment *)
MaxTime == 1

SeqsUpTo(S, n) == UNION {[1..k -> S] : k \in 0..n}

(* "https://www.youtube.com/watch?v=" *)
WatchUrl ==
    <<104,116,116,112,115,58,47,47,119,119,119,46,121,111,117,116,117,98,
      101,46,99,111,109,47,119,97,116,99,104,63,118,61>>

(* "https://youtu.be/" *)
ShortUrl ==
    <<104,116,116,112,115,58,47,47,121,111,117,116,117,46,98,101,47>>

(* "https://www.youtube.com/watch?list=PL1&v=" *)
PlaylistUrl ==
    <<104,116,116,112,115,58,47,47,119,119,119,46,121,111,117,116,117,98,
      101,46,99,111,109,47,119,97,116,99,104,63,108,105,115,116,61,80,76,49,
      38,118,61>>

(* "v=abc&u=youtube.com/watch?v=" *)
EmbeddedParam ==
    <<118,61,97,98,99,38,117,61,121,111,117,116,117,98,101,46,99,111,109,47,
      119,97,116,99,104,63,118,61>>

(* "dQw4w9WgXc" *)
IdStem ==
    <<100,81,119,52,119,57,87,103,88,99>>

(* a second stem, of the characters at the edges of the alphabet,          *)
(* "_-0aZ9zA-_"                                                            *)
EdgeStem == <<95,45,48,97,90,57,122,65,45,95>>

Stems == {IdStem, EdgeStem}

Prefixes == {<<>>, WatchUrl, ShortUrl, PlaylistUrl, EmbeddedParam}

(* "Q", "_", "\n" and "&" *)
TailChars == {81, 95, LineBreak, 38}

(* raw inputs: a bare candidate or a URL, one character short of an id,    *)
(* completed, overlong, or followed by other characters                    *)
RawInputs ==
    {p \o x \o t : p \in Prefixes, x \in Stems,
                    t \in SeqsUpTo(TailChars, MaxTail)}

(* a watch URL of a well-formed id, https://www.youtube.com/watch?v=dQw4w9WgXcQ *)
KnownUrl == WatchUrl \o IdStem \o <<81>>

(* "Video is private" *)
ExcVideoIsPrivate ==
    <<86,105,100,101,111,32,105,115,32,112,114,105,118,97,116,101>>

(* "subtitles disabled" *)
ExcSubtitlesDisabled ==
    <<115,117,98,116,105,116,108,101,115,32,100,105,115,97,98,108,101,100>>

(* "Video unavailable" *)
ExcVideoUnavailable ==
    <<86,105,100,101,111,32,117,110,97,118,97,105,108,97,98,108,101>>

(* "This video does not exist" *)
ExcVideoNotExist ==
    <<84,104,105,115,32,118,105,100,101,111,32,100,111,101,115,32,110,111,
      116,32,101,120,105,115,116>>

(* "channel does not exist" *)
ExcChannelNotExist ==
    <<99,104,97,110,110,101,108,32,100,111,101,115,32,110,111,116,32,101,
      120,105,115,116>>

(* "captions not available" *)
ExcNotAvailable ==
    <<99,97,112,116,105,111,110,115,32,110,111,116,32,97,118,97,105,108,97,
      98,108,101>>

(* "private video unavailable" *)
ExcPrivateUnavailable ==
    <<112,114,105,118,97,116,101,32,118,105,100,101,111,32,117,110,97,118,
      97,105,108,97,98,108,101>>

(* "Disabled on PRIVATE video" *)
ExcDisabledPrivate ==
    <<68,105,115,97,98,108,101,100,32,111,110,32,80,82,73,86,65,84,69,32,
      118,105,100,101,111>>

(* "Read timed out" *)
ExcTimeout ==
    <<82,101,97,100,32,116,105,109,101,100,32,111,117,116>>

(* "'FetchedTranscript' object has no attribute 'snippets'" *)
ExcNoSnippets ==
    <<39,70,101,116,99,104,101,100,84,114,97,110,115,99,114,105,112,116,39,
      32,111,98,106,101,99,116,32,104,97,115,32,110,111,32,97,116,116,114,
      105,98,117,116,101,32,39,115,110,105,112,112,101,116,115,39>>

(* "PR\u0130VATE video": the dotted capital I lowers to "i" and U+0307 *)
ExcDottedPrivate ==
    <<80,82,304,86,65,84,69,32,118,105,100,101,111>>

(* "\u039f\u0394\u039f\u03a3 Disabled": a capital sigma at the end of a word *)
ExcGreekDisabled ==
    <<927,916,927,931,32,68,105,115,97,98,108,101,100>>

(* messages of the exceptions the environment raises *)
Messages ==
    {ExcVideoIsPrivate, ExcSubtitlesDisabled, ExcVideoUnavailable,
     ExcVideoNotExist, ExcChannelNotExist, ExcNotAvailable,
     ExcPrivateUnavailable, ExcDisabledPrivate, ExcTimeout, ExcNoSnippets,
     ExcDottedPrivate, ExcGreekDisabled}

(* where in the inner try block the exception is raised *)
Stages == {"fetch", "snippets", "language_code"}

LanguageCodes == {"en", "de", PyNone}

(* "a", " " and "\n" *)
TextChars == {97, Space, LineBreak}

(* a text with a run of line breaks and spaces inside it, "a\n\n  b" *)
IrregularText == <<97, 10, 10, 32, 32, 98>>

(* a text that starts with a tab and ends with a carriage return,         *)
(* "\tc\r"                                                                 *)
TabbedText == <<9, 99, 13>>

(* a text with a vertical tab, a no-break space and an ideographic space, *)
(* "\x0bd\xa0e\u3000"                                                      *)
OddSpaceText == <<11, 100, 160, 101, 12288>>

Texts ==
    SeqsUpTo(TextChars, MaxTextLen)
        \cup {IrregularText, TabbedText, OddSpaceText}

Times == 0..MaxTime

(* a two-segment transcript, "hello" at 0 for 1 then "world" at 1 for 2 *)
HelloWorld ==
    <<Snippet(<<104,101,108,108,111>>, 0, 1),
      Snippet(<<119,111,114,108,100>>, 1, 2)>>

SampleTranscripts == {<<>>, HelloWorld}

(* transcripts that vary the timing, the texts, and the failing segments  *)
(* (<<97>> is the text "a")                                                *)
Transcripts ==
    SeqsUpTo({Snippet(<<97>>, s, d) : s \in Times, d \in Times}, MaxSegs)
        \cup SeqsUpTo({Snippet(t, 0, 1) : t \in Texts}, MaxSegs)
        \cup SeqsUpTo({Snippet(<<97>>, 0, 1)}
                          \cup {FaultySnippet(<<97>>, m) : m \in Messages},
                      MaxSegs)

---------------------------------------------------------------------------
(* State machine: one request, from its arrival to its response. Requests  *)
(* share no state, so every behaviour is the life of a single request.     *)

Init ==
    /\ pc = "idle"
    /\ endpoint = ""
    /\ raw = <<>>
    /\ video_id = <<>>
    /\ upstream = NoUpstream
    /\ response = NoResponse

(* a POST /get-captions request with body {"video_id": s} arrives: it is   *)
(* answered at once, or get_captions runs up to the collaborator call      *)
PostRequest(s) ==
    /\ pc = "idle"
    /\ endpoint' = "POST"
    /\ raw' = s
    /\ video_id' = post_get_captions(s).video_id
    /\ upstream' = NoUpstream
    /\ response' = post_get_captions(s).response
    /\ pc' = IF post_get_captions(s).accepted THEN "fetching" ELSE "done"

(* a GET /video/{s}/captions request arrives *)
GetRequest(s) ==
    /\ pc = "idle"
    /\ IsPathSegment(s)
    /\ endpoint' = "GET"
    /\ raw' = s
    /\ video_id' = get_captions_by_url(s).video_id
    /\ upstream' = NoUpstream
    /\ response' = get_captions_by_url(s).response
    /\ pc' = IF get_captions_by_url(s).accepted THEN "fetching" ELSE "done"

(* api.fetch returns a transcript and the handler runs to its response *)
CollaboratorReturns(snippets, language_code) ==
    /\ pc = "fetching"
    /\ upstream' = Returned(snippets, language_code)
    /\ response' = get_captions(video_id, upstream')
    /\ pc' = "done"
    /\ UNCHANGED <<endpoint, raw, video_id>>

(* the fetch stage raises and the handler runs to its response *)
CollaboratorRaises(stage, message) ==
    /\ pc = "fetching"
    /\ upstream' = Raised(stage, message)
    /\ response' = get_captions(video_id, upstream')
    /\ pc' = "done"
    /\ UNCHANGED <<endpoint, raw, video_id>>

Next ==
    \/ \E s \in RawInputs : PostRequest(s)
    \/ \E s \in RawInputs : GetRequest(s)
    \/ \E t \in SampleTranscripts, l \in LanguageCodes : CollaboratorReturns(t, l)
    \/ \E g \in Stages, m \in Messages : CollaboratorRaises(g, m)

Spec == Init /\ [][Next]_vars

(* the fetch stage in depth: one known request, every transcript *)
NextFetch ==
    \/ PostRequest(KnownUrl)
    \/ \E t \in Transcripts, l \in LanguageCodes : CollaboratorReturns(t, l)
    \/ \E g \in Stages, m \in Messages : CollaboratorRaises(g, m)

SpecFetch == Init /\ [][NextFetch]_vars

---------------------------------------------------------------------------
(* Properties *)

(* "does not exist" *)
NeedleDoesNotExist ==
    <<100,111,101,115,32,110,111,116,32,101,120,105,115,116>>

(* "not available" *)
NeedleNotAvailable ==
    <<110,111,116,32,97,118,97,105,108,97,98,108,101>>

(* exactly 11 characters, each of [a-zA-Z0-9_-] *)
WellFormedId(x) == Len(x) = IdLen /\ \A i \in 1..Len(x) : x[i] \in IdAlphabet

IsPrefixOf(p, s) == Len(p) <= Len(s) /\ SubSeq(s, 1, Len(p)) = p

DropPrefix(p, s) == SubSeq(s, Len(p) + 1, Len(s))

IsWhitespace(c) == c \in Whitespace

NotWhitespace(c) == c \notin Whitespace

(* the request passed validation and reached the handler body *)
Accepted == pc = "fetching" \/ (pc = "done" /\ upstream.kind # "none")

(* the request was refused by the validation *)
Refused == pc = "done" /\ upstream.kind = "none"

(* the collaborator returned a transcript as its contract describes it:    *)
(* numeric start and duration on every segment, and a language tag         *)
ReturnedTranscript ==
    /\ pc = "done"
    /\ upstream.kind = "returns"
    /\ first_fault(upstream.snippets) = 0
    /\ upstream.language_code # PyNone

(* a failure after the fetch stage reached the outer except Exception *)
FailedAfterFetch ==
    /\ pc = "done"
    /\ upstream.kind = "returns"
    /\ \/ first_fault(upstream.snippets) # 0
       \/ upstream.language_code = PyNone

(* the message of that failure *)
FailureMessage ==
    IF first_fault(upstream.snippets) # 0
    THEN upstream.snippets[first_fault(upstream.snippets)].message
    ELSE ExcLanguageNone

(* C1: whatever the raw input, a value the validator accepts is exactly 11 *)
(* characters long and every character of it is in [a-zA-Z0-9_-].         *)
C1_AcceptedIdIsWellFormed == Accepted => WellFormedId(video_id)

(* C2: given a well-formed identifier X bare, after                        *)
(* https://www.youtube.com/watch?v= or after https://youtu.be/, the        *)
(* normalizer accepts the input and returns X itself.                      *)
C2_WellFormedIdNormalizesToItself ==
    \A p \in {<<>>, WatchUrl, ShortUrl} :
        (pc # "idle" /\ IsPrefixOf(p, raw) /\ WellFormedId(DropPrefix(p, raw)))
            => (Accepted /\ video_id = DropPrefix(p, raw))

C2_Witness ==
    /\ pc = "fetching"
    /\ endpoint = "POST"
    /\ raw = ShortUrl \o EdgeStem \o <<95>>
    /\ video_id = EdgeStem \o <<95>>
    /\ WellFormedId(video_id)

(* C3: a failure raised by the collaborator's fetch is classified by its   *)
(* message: "private" in it gives VIDEO_PRIVATE with status 403 and        *)
(* "disabled" in it gives CAPTIONS_DISABLED with status 400.               *)
C3_FetchFailureClassifiedByMessage ==
    (pc = "done" /\ upstream.kind = "raises" /\ upstream.stage = "fetch")
        => /\ upstream.message = ExcVideoIsPrivate
                => (response.error_code = "VIDEO_PRIVATE" /\ response.status = 403)
           /\ upstream.message = ExcSubtitlesDisabled
                => (response.error_code = "CAPTIONS_DISABLED"
                        /\ response.status = 400)

(* C4: a failure at the fetch stage, whatever its message, is answered     *)
(* with status 404 and NO_TRANSCRIPT_AVAILABLE carrying the request's      *)
(* normalized video_id; its message is not classified.                     *)
C4_FetchStageFailureIsNoTranscript ==
    (pc = "done" /\ upstream.kind = "raises")
        => /\ response.kind = "HTTPException"
           /\ response.status = 404
           /\ response.error_code = "NO_TRANSCRIPT_AVAILABLE"
           /\ response.error = MsgNoTranscript
           /\ response.video_id = video_id
           /\ video_id = extract_video_id(raw)

C4_Witness ==
    /\ pc = "done"
    /\ upstream.kind = "raises"
    /\ upstream.stage = "fetch"
    /\ upstream.message = ExcVideoIsPrivate
    /\ response.status = 404
    /\ response.video_id = IdStem \o <<81>>

(* the outcome of POST /get-captions for body {"video_id": s} when the     *)
(* collaborator behaves as up                                              *)
PostOutcome(s, up) ==
    IF post_get_captions(s).accepted
    THEN get_captions(post_get_captions(s).video_id, up)
    ELSE post_get_captions(s).response

(* C5: GET /video/{s}/captions ends in the same status and the same body   *)
(* as POST /get-captions with {"video_id": s}, for every input and every   *)
(* behaviour of the collaborator, a failed validation included.            *)
C5_GetSameAsPost ==
    (pc = "done" /\ endpoint = "GET") => response = PostOutcome(raw, upstream)

Taxonomy ==
    {"VALIDATION_ERROR", "NO_TRANSCRIPT_AVAILABLE", "VIDEO_NOT_FOUND",
     "VIDEO_PRIVATE", "CAPTIONS_DISABLED", "PROCESSING_ERROR"}

(* the status codes the error taxonomy gives each kind *)
TaxonomyStatus(error_code) ==
    CASE error_code = "VALIDATION_ERROR" -> {400, 422}
      [] error_code = "NO_TRANSCRIPT_AVAILABLE" -> {404}
      [] error_code = "VIDEO_NOT_FOUND" -> {404}
      [] error_code = "VIDEO_PRIVATE" -> {403}
      [] error_code = "CAPTIONS_DISABLED" -> {400}
      [] error_code = "PROCESSING_ERROR" -> {500}
      [] OTHER -> {}

(* C6: every request that does not succeed ends in a response whose        *)
(* error_code is one of the taxonomy, with that kind's status and the      *)
(* echoed video_id (the raw input when the normalization failed).          *)
C6_EveryFailureIsClassified ==
    (pc = "done" /\ response.kind # "CaptionResponse")
        => /\ response.error_code \in Taxonomy
           /\ response.status \in TaxonomyStatus(response.error_code)
           /\ response.video_id = IF Refused THEN raw ELSE video_id

(* the greatest start + duration over the segments, 0 when there is none *)
MaxSegmentEnd(transcript) ==
    IF transcript = <<>> THEN 0
    ELSE SetMax({transcript[i].start + transcript[i].duration :
                    i \in 1..Len(transcript)})

(* C7: when the collaborator returns a sequence of segments the request    *)
(* succeeds with total_duration the maximum of start + duration over all   *)
(* segments, whatever their order; an empty sequence gives captions ""     *)
(* and total_duration 0.                                                   *)
C7_TotalDurationIsMaxEnd ==
    ReturnedTranscript
        => /\ response.kind = "CaptionResponse"
           /\ response.status = 200
           /\ response.total_duration = MaxSegmentEnd(upstream.snippets)
           /\ upstream.snippets = <<>>
                => (response.captions = <<>> /\ response.total_duration = 0)

C7_Witness ==
    /\ ReturnedTranscript
    /\ Len(upstream.snippets) = 2
    /\ upstream.snippets[1].start + upstream.snippets[1].duration = 2
    /\ upstream.snippets[2].start + upstream.snippets[2].duration = 1
    /\ response.total_duration = 2

(* C8: on a successful fetch the response's language is the tag the        *)
(* collaborator reported, and when it reported none the request still      *)
(* succeeds, with language "en".                                           *)
C8_LanguageReportedOrDefault ==
    (pc = "done" /\ upstream.kind = "returns"
        /\ first_fault(upstream.snippets) = 0)
        => /\ response.kind = "CaptionResponse"
           /\ response.language = IF upstream.language_code = PyNone
                                  THEN "en" ELSE upstream.language_code

RECURSIVE Words(_)
(* the maximal runs of non-whitespace characters of s, in order *)
Words(s) ==
    IF s = <<>> THEN <<>>
    ELSE IF Head(s) \in Whitespace THEN Words(Tail(s))
    ELSE LET rest == Words(Tail(s))
         IN  IF Len(s) > 1 /\ s[2] \notin Whitespace
             THEN <<(<<Head(s)>> \o rest[1])>> \o Tail(rest)
             ELSE <<(<<Head(s)>>)>> \o rest

(* the words of every segment's text, segment after segment *)
TranscriptWords(transcript) ==
    Flatten([i \in 1..Len(transcript) |-> Words(transcript[i].text)])

(* C9: the captions of a success response are the segment texts joined in  *)
(* order with every run of whitespace collapsed to one space: no leading   *)
(* or trailing whitespace, no two adjacent whitespace characters, no       *)
(* whitespace other than a space, and the non-whitespace characters are    *)
(* exactly those of the segments, in order.                                *)
C9_CaptionsAreSingleSpaced ==
    (pc = "done" /\ response.kind = "CaptionResponse")
        => LET c == response.captions
               texts == [i \in 1..Len(upstream.snippets) |->
                            upstream.snippets[i].text]
           IN  /\ c # <<>> => (c[1] \notin Whitespace /\ c[Len(c)] \notin Whitespace)
               /\ \A i \in 1..(Len(c) - 1) :
                      ~(c[i] \in Whitespace /\ c[i + 1] \in Whitespace)
               /\ \A i \in 1..Len(c) : c[i] \in Whitespace => c[i] = Space
               /\ SelectSeq(c, NotWhitespace)
                      = SelectSeq(Flatten(texts), NotWhitespace)
               /\ Words(c) = TranscriptWords(upstream.snippets)

C9_Witness ==
    /\ pc = "done"
    /\ response.kind = "CaptionResponse"
    /\ Len(upstream.snippets) = 2
    /\ upstream.snippets[1].text = IrregularText
    /\ upstream.snippets[2].text = TabbedText
    /\ response.captions = <<97, Space, 98, Space, 99>>

(* the classification the claim states, for a lower-cased message *)
ClaimedErrorCode(error_message) ==
    IF \/ str_contains(NeedleUnavailable, error_message)
       \/ str_contains(NeedleDoesNotExist, error_message)
    THEN "VIDEO_NOT_FOUND"
    ELSE IF str_contains(NeedlePrivate, error_message) THEN "VIDEO_PRIVATE"
    ELSE IF \/ str_contains(NeedleDisabled, error_message)
            \/ str_contains(NeedleNotAvailable, error_message)
    THEN "CAPTIONS_DISABLED"
    ELSE "PROCESSING_ERROR"

(* C10 as stated: a failure other than the no-transcript case is           *)
(* classified by its lower-cased message, "video unavailable" or "does     *)
(* not exist" first, then "private", then "disabled" or "not available",   *)
(* otherwise PROCESSING_ERROR with the message verbatim.                   *)
C10_ClassifiedAsClaimed ==
    FailedAfterFetch
        => /\ response.error_code = ClaimedErrorCode(str_lower(FailureMessage))
           /\ response.status \in TaxonomyStatus(response.error_code)

(* the classification with the substrings the handler tests *)
AmendedErrorCode(error_message) ==
    IF \/ str_contains(NeedleUnavailable, error_message)
       \/ str_contains(NeedleNotExist, error_message)
    THEN "VIDEO_NOT_FOUND"
    ELSE IF str_contains(NeedlePrivate, error_message) THEN "VIDEO_PRIVATE"
    ELSE IF str_contains(NeedleDisabled, error_message) THEN "CAPTIONS_DISABLED"
    ELSE "PROCESSING_ERROR"

(* C10 amended: the substrings are "video unavailable" or "video does not  *)
(* exist" for VIDEO_NOT_FOUND/404, else "private" for VIDEO_PRIVATE/403,   *)
(* else "disabled" for CAPTIONS_DISABLED/400, otherwise                    *)
(* PROCESSING_ERROR/500 whose user message ends with the original message  *)
(* verbatim; an earlier rule wins over a later one.                        *)
C10_ClassifiedByMessage ==
    FailedAfterFetch
        => /\ response.kind = "HTTPException"
           /\ response.error_code = AmendedErrorCode(str_lower(FailureMessage))
           /\ response.status \in TaxonomyStatus(response.error_code)
           /\ response.video_id = video_id
           /\ response.error_code = "PROCESSING_ERROR"
                => response.error = MsgProcessingPrefix \o FailureMessage

C10_Witness ==
    /\ FailedAfterFetch
    /\ FailureMessage = ExcPrivateUnavailable
    /\ response.error_code = "VIDEO_NOT_FOUND"
    /\ response.status = 404

====
